---------------------------- MODULE Spec2Model ----------------------------
(***************************************************************************)
(* Model of the guide matching engine (GuideMatchingService) and of the    *)
(* discovery pipeline (public/sw.js, scripts/discovery-agent.ts): safety   *)
(* filter, duplicate detection, search, generation, save and scheduling.   *)
(*                                                                         *)
(* A JavaScript string is a sequence of one-character strings.  A score    *)
(* (a JavaScript number obtained as matches / size, then weighted by 0.4,  *)
(* 0.3 and 0.3) is an exact fraction [num, den] with den > 0; fractions    *)
(* are compared by cross-multiplication.                                   *)
(***************************************************************************)
EXTENDS Integers, Sequences, FiniteSets, TLC

VARIABLES
    guides,     \* this.guides: the corpus, a sequence of guide records
    query,      \* the query (or candidate title) the caller passes in
    op,         \* the operation applied last ("init" before any call)
    text,       \* second string argument of the last call
    keywords,   \* keyword-list argument of the last call
    minScore,   \* minScore argument of the last call
    limit,      \* limit argument of the last call
    ret,        \* value returned by the last call
    pipeline,   \* which script runs: "batch" (sw.js) or "single" (discovery-agent.ts)
    mistralKey, \* MISTRAL_API_KEY is set
    tavilyKey,  \* TAVILY_API_KEY is set
    isContinuous, \* process.argv includes --continuous
    pendingFile,  \* OUTPUT_FILE, public/data/pending_guides.json
    corpusFile,   \* GUIDES_FILE, src/data/guides.json
    runState,   \* the process: "idle", "running", "scheduled" or "exited"
    timerArmed, \* setInterval(cycle, ...) has been called
    cycles,     \* the activations of cycle(), one record each
    openBrowsers, \* browsers launched and not closed
    world,      \* the surroundings of the run: what the services can answer
    response    \* the answer of the generation endpoint to the request at hand

serviceVars == <<guides, query, op, text, keywords, minScore, limit, ret>>

pipelineVars ==
    <<pipeline, mistralKey, tavilyKey, isContinuous, pendingFile, corpusFile,
      runState, timerArmed, cycles, openBrowsers, world, response>>

vars == <<serviceVars, pipelineVars>>

----------------------------------------------------------------------------
(* Bounds of the input space.                                              *)

MaxLen == 3        \* longest character-level input string
MaxWords == 2      \* most vocabulary words in a phrase-level query
MaxGuides == 2     \* most guides in a corpus
MaxLimit == 2      \* largest limit passed to findMatches

----------------------------------------------------------------------------
(* Characters.                                                             *)

UpperCase ==
    <<"A", "B", "C", "D", "E", "F", "G", "H", "I", "J", "K", "L", "M",
      "N", "O", "P", "Q", "R", "S", "T", "U", "V", "W", "X", "Y", "Z">>

LowerCase ==
    <<"a", "b", "c", "d", "e", "f", "g", "h", "i", "j", "k", "l", "m",
      "n", "o", "p", "q", "r", "s", "t", "u", "v", "w", "x", "y", "z">>

Digits == {"0", "1", "2", "3", "4", "5", "6", "7", "8", "9"}

Range(s) == {s[i] : i \in DOMAIN s}

UpperCaseLetters == Range(UpperCase)

LowerCaseLetters == Range(LowerCase)

\* String.prototype.toLowerCase on the letters it changes
LowerOf ==
    [c \in UpperCaseLetters |->
        LowerCase[CHOOSE i \in DOMAIN UpperCase : UpperCase[i] = c]]

\* String.prototype.toLowerCase, one character
toLowerChar(c) == IF c \in UpperCaseLetters THEN LowerOf[c] ELSE c

\* the regular-expression class \w : [A-Za-z0-9_]
WordChars == UpperCaseLetters \cup LowerCaseLetters \cup Digits \cup {"_"}

IsWordChar(c) == c \in WordChars

\* the regular-expression class [a-z0-9]
LowerAlnumChars == LowerCaseLetters \cup Digits

IsLowerAlnum(c) == c \in LowerAlnumChars

\* the regular-expression class \s
SpaceChars == {" ", "\t", "\n", "\r"}

IsSpace(c) == c \in SpaceChars

----------------------------------------------------------------------------
(* String operations of the JavaScript runtime.                            *)

toLowerCase(s) == [i \in DOMAIN s |-> toLowerChar(s[i])]

KeepWordOrSpace(c) == IsWordChar(c) \/ IsSpace(c)

KeepAlnumOrSpace(c) == IsLowerAlnum(c) \/ IsSpace(c)

\* s.replace(/\s+/g, ' '): every maximal run of whitespace becomes one space
RECURSIVE CollapseSpaces(_)
CollapseSpaces(s) ==
    IF s = <<>> THEN <<>>
    ELSE IF IsSpace(Head(s))
         THEN IF Len(s) > 1 /\ IsSpace(s[2])
              THEN CollapseSpaces(Tail(s))
              ELSE <<" ">> \o CollapseSpaces(Tail(s))
         ELSE <<Head(s)>> \o CollapseSpaces(Tail(s))

RECURSIVE TrimStart(_)
TrimStart(s) ==
    IF s # <<>> /\ IsSpace(Head(s)) THEN TrimStart(Tail(s)) ELSE s

RECURSIVE TrimEnd(_)
TrimEnd(s) ==
    IF s # <<>> /\ IsSpace(s[Len(s)])
    THEN TrimEnd(SubSeq(s, 1, Len(s) - 1))
    ELSE s

\* String.prototype.trim
Trim(s) == TrimEnd(TrimStart(s))

\* s.split(' '): the pieces between single spaces, empty pieces included
RECURSIVE SplitFrom(_, _)
SplitFrom(s, cur) ==
    IF s = <<>> THEN <<cur>>
    ELSE IF Head(s) = " "
         THEN <<cur>> \o SplitFrom(Tail(s), <<>>)
         ELSE SplitFrom(Tail(s), Append(cur, Head(s)))

Split(s) == SplitFrom(s, <<>>)

\* hay.includes(needle)
Includes(hay, needle) ==
    \E i \in 0..(Len(hay) - Len(needle)) :
        SubSeq(hay, i + 1, i + Len(needle)) = needle

\* new Set(array): the distinct elements in order of first occurrence
RECURSIVE NewSet(_)
NewSet(a) ==
    IF a = <<>> THEN <<>>
    ELSE LET rest == NewSet(SubSeq(a, 1, Len(a) - 1))
             x == a[Len(a)]
         IN  IF x \in Range(rest) THEN rest ELSE Append(rest, x)

----------------------------------------------------------------------------
(* Fractions.                                                              *)

Rat(n, d) == [num |-> n, den |-> d]

RatLt(a, b) == a.num * b.den < b.num * a.den
RatLe(a, b) == a.num * b.den <= b.num * a.den
RatEq(a, b) == a.num * b.den = b.num * a.den
RatGe(a, b) == RatLe(b, a)
RatGt(a, b) == RatLt(b, a)

RatMul(a, b) == Rat(a.num * b.num, a.den * b.den)
RatAdd(a, b) == Rat(a.num * b.den + b.num * a.den, a.den * b.den)

----------------------------------------------------------------------------
(* GuideMatchingService: normalize, calculateWordOverlap, keywordScore.    *)

\* Variant: the punctuation pattern lacks the g flag, so replace removes only the
\* first character outside \w and \s.
RECURSIVE RemoveFirstNonWord(_)
RemoveFirstNonWord(s) ==
    IF s = <<>> THEN <<>>
    ELSE IF KeepWordOrSpace(Head(s))
         THEN <<Head(s)>> \o RemoveFirstNonWord(Tail(s))
         ELSE Tail(s)

normalize_FirstOnly(t) ==
    Trim(CollapseSpaces(RemoveFirstNonWord(toLowerCase(t))))

normalize(t) ==
    Trim(CollapseSpaces(SelectSeq(toLowerCase(t), KeepWordOrSpace)))

\* the pipeline's normalizeText
normalizeText(t) ==
    Trim(CollapseSpaces(SelectSeq(toLowerCase(t), KeepAlnumOrSpace)))

\* queryWords.forEach(word => { if (...) matches++ }), over the Set's elements
RECURSIVE CountOverlap(_, _)
CountOverlap(queryWords, textWords) ==
    IF queryWords = <<>> THEN 0
    ELSE CountOverlap(Tail(queryWords), textWords)
         + (IF Len(Head(queryWords)) > 2 /\ Head(queryWords) \in Range(textWords)
            THEN 1 ELSE 0)

\* Variant: the divisor counts only the query tokens longer than 2 characters.
calculateWordOverlap_SignificantOnly(q, t) ==
    LET queryWords == NewSet(Split(normalize(q)))
        textWords == NewSet(Split(normalize(t)))
        matches == CountOverlap(queryWords, textWords)
        significant == SelectSeq(queryWords, LAMBDA w : Len(w) > 2)
    IN  IF Len(significant) > 0 THEN Rat(matches, Len(significant)) ELSE Rat(0, 1)

\* Variant: the matches are counted over the query's token array, repeated
\* tokens included, and divided by the size of the token Set.
calculateWordOverlap_CountDuplicates(q, t) ==
    LET queryArray == Split(normalize(q))
        textWords == NewSet(Split(normalize(t)))
        matches == CountOverlap(queryArray, textWords)
    IN  Rat(matches, Len(NewSet(queryArray)))

\* Variant: a symmetric (Jaccard) score, divided by the tokens of both sides.
calculateWordOverlap_Symmetric(q, t) ==
    LET queryWords == NewSet(Split(normalize(q)))
        textWords == NewSet(Split(normalize(t)))
        matches == CountOverlap(queryWords, textWords)
    IN  Rat(matches, Cardinality(Range(queryWords) \cup Range(textWords)))

calculateWordOverlap(q, t) ==
    LET queryWords == NewSet(Split(normalize(q)))
        textWords == NewSet(Split(normalize(t)))
        matches == CountOverlap(queryWords, textWords)
    IN  IF Len(queryWords) > 0 THEN Rat(matches, Len(queryWords)) ELSE Rat(0, 1)

\* keywords.forEach(keyword => { if (normalizedQuery.includes(...)) matches++ })
RECURSIVE CountKeywords(_, _)
CountKeywords(normalizedQuery, kws) ==
    IF kws = <<>> THEN 0
    ELSE CountKeywords(normalizedQuery, Tail(kws))
         + (IF Includes(normalizedQuery, normalize(Head(kws))) THEN 1 ELSE 0)

keywordScore(q, kws) ==
    LET normalizedQuery == normalize(q)
        matches == CountKeywords(normalizedQuery, kws)
    IN  IF Len(kws) > 0 THEN Rat(matches, Len(kws)) ELSE Rat(0, 1)


----------------------------------------------------------------------------
(* GuideMatchingService: findBestMatch, findMatches, isDuplicate.          *)

\* a null return value
Null == [null |-> TRUE]

TitleWeight == Rat(4, 10)
DescriptionWeight == Rat(3, 10)
KeywordWeight == Rat(3, 10)

titleScore(q, guide) == RatMul(calculateWordOverlap(q, guide.title), TitleWeight)

descriptionScore(q, guide) ==
    RatMul(calculateWordOverlap(q, guide.problemDescription), DescriptionWeight)

keywordScoreValue(q, guide) == RatMul(keywordScore(q, guide.keywords), KeywordWeight)

totalScore(q, guide) ==
    RatAdd(RatAdd(titleScore(q, guide), descriptionScore(q, guide)),
           keywordScoreValue(q, guide))

\* matchReason of findBestMatch, as the list of its comma-separated parts
BestMatchReason(q, guide) ==
    LET parts ==
            (IF RatGt(titleScore(q, guide), Rat(2, 10))
             THEN <<"title match">> ELSE <<>>)
            \o (IF RatGt(descriptionScore(q, guide), Rat(15, 100))
                THEN <<"description match">> ELSE <<>>)
            \o (IF RatGt(keywordScoreValue(q, guide), Rat(15, 100))
                THEN <<"keyword match">> ELSE <<>>)
    IN  IF parts = <<>> THEN <<"general match">> ELSE parts

\* Math.round(totalScore * 100), the number in findMatches' matchReason
RoundPercent(score) == (200 * score.num + score.den) \div (2 * score.den)

\* Variant: the loop pushes every guide, whatever its total.
RECURSIVE BestMatchResults_NoThreshold(_, _, _, _)
BestMatchResults_NoThreshold(gs, q, ms, from) ==
    IF from > Len(gs) THEN <<>>
    ELSE <<[guide |-> from, score |-> totalScore(q, gs[from]),
            matchReason |-> BestMatchReason(q, gs[from])]>>
         \o BestMatchResults_NoThreshold(gs, q, ms, from + 1)

\* the loop of findBestMatch over this.guides[from..]: results.push(...) for
\* every guide whose total reaches ms; a guide is referred to by its position
RECURSIVE BestMatchResults(_, _, _, _)
BestMatchResults(gs, q, ms, from) ==
    IF from > Len(gs) THEN <<>>
    ELSE LET total == totalScore(q, gs[from])
         IN  (IF RatGe(total, ms)
              THEN <<[guide |-> from, score |-> total,
                      matchReason |-> BestMatchReason(q, gs[from])]>>
              ELSE <<>>)
             \o BestMatchResults(gs, q, ms, from + 1)

\* the loop of findMatches
RECURSIVE MatchResults(_, _, _, _)
MatchResults(gs, q, ms, from) ==
    IF from > Len(gs) THEN <<>>
    ELSE LET total == totalScore(q, gs[from])
         IN  (IF RatGe(total, ms)
              THEN <<[guide |-> from, score |-> total,
                      matchReason |-> RoundPercent(total)]>>
              ELSE <<>>)
             \o MatchResults(gs, q, ms, from + 1)

\* Variant: the comparator is a.score - b.score, an ascending sort.
RECURSIVE InsertByScore_Ascending(_, _)
InsertByScore_Ascending(sorted, x) ==
    IF sorted = <<>> THEN <<x>>
    ELSE IF RatLe(Head(sorted).score, x.score)
         THEN <<Head(sorted)>> \o InsertByScore_Ascending(Tail(sorted), x)
         ELSE <<x>> \o sorted

\* Variant: a sort that is not stable, an element going in front of its equals.
RECURSIVE InsertByScore_BeforeEqual(_, _)
InsertByScore_BeforeEqual(sorted, x) ==
    IF sorted = <<>> THEN <<x>>
    ELSE IF RatGt(Head(sorted).score, x.score)
         THEN <<Head(sorted)>> \o InsertByScore_BeforeEqual(Tail(sorted), x)
         ELSE <<x>> \o sorted

\* results.sort((a, b) => b.score - a.score): Array.prototype.sort is stable, so
\* an element goes behind every element whose score is not lower than its own
RECURSIVE InsertByScore(_, _)
InsertByScore(sorted, x) ==
    IF sorted = <<>> THEN <<x>>
    ELSE IF RatGe(Head(sorted).score, x.score)
         THEN <<Head(sorted)>> \o InsertByScore(Tail(sorted), x)
         ELSE <<x>> \o sorted

RECURSIVE SortByScore(_)
SortByScore(results) ==
    IF results = <<>> THEN <<>>
    ELSE InsertByScore(SortByScore(SubSeq(results, 1, Len(results) - 1)),
                       results[Len(results)])

\* array.slice(0, n) for an integer n >= 0
Slice(a, n) == SubSeq(a, 1, IF n < Len(a) THEN n ELSE Len(a))

findBestMatch(gs, q, ms) ==
    LET results == SortByScore(BestMatchResults(gs, q, ms, 1))
    IN  IF Len(results) > 0 THEN results[1] ELSE Null

\* Variant: the results are cut to the limit before they are sorted.
findMatches_SliceBeforeSort(gs, q, lim, ms) ==
    SortByScore(Slice(MatchResults(gs, q, ms, 1), lim))

findMatches(gs, q, lim, ms) ==
    Slice(SortByScore(MatchResults(gs, q, ms, 1)), lim)

\* keywords.filter(k => guideKeywords.some(gk => normalize(gk) === normalize(k)))
IsCommonKeyword(k, guideKeywords) ==
    \E j \in DOMAIN guideKeywords : normalize(guideKeywords[j]) = normalize(k)

RECURSIVE commonKeywords(_, _)
commonKeywords(kws, guideKeywords) ==
    IF kws = <<>> THEN <<>>
    ELSE (IF IsCommonKeyword(Head(kws), guideKeywords) THEN <<Head(kws)>> ELSE <<>>)
         \o commonKeywords(Tail(kws), guideKeywords)

\* Variant: the keyword trigger needs more than 3 common keywords.
DuplicateOfGuide_MoreThanThree(title, kws, guide) ==
    IF RatGt(calculateWordOverlap(title, guide.title), Rat(7, 10)) THEN TRUE
    ELSE IF Len(commonKeywords(kws, guide.keywords)) > 3 THEN TRUE
    ELSE FALSE

\* the callback of this.guides.some(...) in isDuplicate
DuplicateOfGuide(title, kws, guide) ==
    IF RatGt(calculateWordOverlap(title, guide.title), Rat(7, 10)) THEN TRUE
    ELSE IF Len(commonKeywords(kws, guide.keywords)) >= 3 THEN TRUE
    ELSE FALSE

RECURSIVE SomeDuplicate(_, _, _, _)
SomeDuplicate(gs, title, kws, from) ==
    IF from > Len(gs) THEN FALSE
    ELSE IF DuplicateOfGuide(title, kws, gs[from]) THEN TRUE
    ELSE SomeDuplicate(gs, title, kws, from + 1)

isDuplicate(gs, title, kws) == SomeDuplicate(gs, title, kws, 1)

----------------------------------------------------------------------------
(* Discovery pipeline: isDuplicate(newGuide, existingGuides).              *)

\* a guide object carries a keywords array or lacks the property
HasKeywords(g) == "keywords" \in DOMAIN g

\* Variant: the length filter of the matching service (longer than 2).
RECURSIVE matchingWords_LongerThanTwo(_, _)
matchingWords_LongerThanTwo(titleWords, existingTitle) ==
    IF titleWords = <<>> THEN <<>>
    ELSE (IF Len(Head(titleWords)) > 2 /\ Includes(existingTitle, Head(titleWords))
          THEN <<Head(titleWords)>> ELSE <<>>)
         \o matchingWords_LongerThanTwo(Tail(titleWords), existingTitle)

\* titleWords.filter(w => w.length > 3 && existingTitle.includes(w))
RECURSIVE matchingWords(_, _)
matchingWords(titleWords, existingTitle) ==
    IF titleWords = <<>> THEN <<>>
    ELSE (IF Len(Head(titleWords)) > 3 /\ Includes(existingTitle, Head(titleWords))
          THEN <<Head(titleWords)>> ELSE <<>>)
         \o matchingWords(Tail(titleWords), existingTitle)

pipelineTitleSimilarity(newTitle, existingTitleRaw) ==
    LET normalizedTitle == normalizeText(newTitle)
        existingTitle == normalizeText(existingTitleRaw)
        titleWords == Split(normalizedTitle)
    IN  Rat(Len(matchingWords(titleWords, existingTitle)), Len(titleWords))

RECURSIVE pipelineCommonKeywords(_, _)
pipelineCommonKeywords(kws, existingKeywords) ==
    IF kws = <<>> THEN <<>>
    ELSE (IF \E j \in DOMAIN existingKeywords :
                 normalizeText(existingKeywords[j]) = normalizeText(Head(kws))
          THEN <<Head(kws)>> ELSE <<>>)
         \o pipelineCommonKeywords(Tail(kws), existingKeywords)

\* the body of the for loop over existingGuides[from..]
RECURSIVE pipelineIsDuplicateFrom(_, _, _)
pipelineIsDuplicateFrom(newGuide, existingGuides, from) ==
    IF from > Len(existingGuides) THEN FALSE
    ELSE LET existing == existingGuides[from]
         IN  IF RatGt(pipelineTitleSimilarity(newGuide.title, existing.title),
                      Rat(7, 10))
             THEN TRUE
             ELSE IF /\ HasKeywords(newGuide)
                     /\ HasKeywords(existing)
                     /\ Len(pipelineCommonKeywords(newGuide.keywords,
                                                   existing.keywords)) >= 3
             THEN TRUE
             ELSE pipelineIsDuplicateFrom(newGuide, existingGuides, from + 1)

pipelineIsDuplicate(newGuide, existingGuides) ==
    pipelineIsDuplicateFrom(newGuide, existingGuides, 1)

----------------------------------------------------------------------------
(* Input strings.                                                          *)

Q_WifiNotConnecting ==
    <<"w", "i", "f", "i", " ", "n", "o", "t", " ",
      "c", "o", "n", "n", "e", "c", "t", "i", "n", "g">>
T_FixWiFiNoInternet ==
    <<"F", "i", "x", " ", "W", "i", "-", "F", "i", " ", "N", "o", " ",
      "I", "n", "t", "e", "r", "n", "e", "t">>
D_StepsToRestore ==
    <<"S", "t", "e", "p", "s", " ", "t", "o", " ", "r", "e", "s", "t", "o", "r", "e",
      " ", "i", "n", "t", "e", "r", "n", "e", "t", " ", "o", "v", "e", "r", " ",
      "W", "i", "-", "F", "i">>
T_FixWifiConnectionIssues ==
    <<"F", "i", "x", " ", "W", "i", "f", "i", " ",
      "C", "o", "n", "n", "e", "c", "t", "i", "o", "n", " ",
      "I", "s", "s", "u", "e", "s">>
T_FixingWifiConnectionProblems ==
    <<"F", "i", "x", "i", "n", "g", " ", "W", "i", "f", "i", " ",
      "C", "o", "n", "n", "e", "c", "t", "i", "o", "n", " ",
      "P", "r", "o", "b", "l", "e", "m", "s">>
D_WifiKeepsDropping ==
    <<"W", "i", "f", "i", " ", "k", "e", "e", "p", "s", " ",
      "d", "r", "o", "p", "p", "i", "n", "g">>
T_IPhoneBatteryDrain ==
    <<"i", "P", "h", "o", "n", "e", " ", "B", "a", "t", "t", "e", "r", "y", " ",
      "D", "r", "a", "i", "n">>
T_PhonePowerSaving ==
    <<"P", "h", "o", "n", "e", " ", "P", "o", "w", "e", "r", " ",
      "S", "a", "v", "i", "n", "g">>
S_WiFiBang == <<"W", "i", "-", "F", "i", "!">>
S_WiFi == <<"W", "i", "-", "F", "i">>
S_FixWifi == <<"F", "i", "x", " ", "w", "i", "f", "i">>
K_wifi == <<"w", "i", "f", "i">>
K_no == <<"n", "o">>
K_internet == <<"i", "n", "t", "e", "r", "n", "e", "t">>
K_connection == <<"c", "o", "n", "n", "e", "c", "t", "i", "o", "n">>
K_router == <<"r", "o", "u", "t", "e", "r">>
K_battery == <<"b", "a", "t", "t", "e", "r", "y">>
K_iphone == <<"i", "p", "h", "o", "n", "e">>
K_power == <<"p", "o", "w", "e", "r">>
K_drain == <<"d", "r", "a", "i", "n">>
K_Bang == <<"!">>

\* character-level inputs: every string of at most MaxLen characters
Alphabet == {"a", "B", "_", "-", " "}

CharStrings == UNION {[1..n -> Alphabet] : n \in 0..MaxLen}

\* phrase-level inputs: at most MaxWords vocabulary words joined by spaces
Vocabulary == {K_wifi, S_WiFi, K_no, K_internet}

RECURSIVE JoinWords(_)
JoinWords(ws) ==
    IF ws = <<>> THEN <<>>
    ELSE IF Len(ws) = 1 THEN ws[1]
    ELSE ws[1] \o <<" ">> \o JoinWords(Tail(ws))

Phrases == {JoinWords(ws) : ws \in UNION {[1..n -> Vocabulary] : n \in 0..MaxWords}}

ScenarioQueries ==
    {Q_WifiNotConnecting, T_FixWifiConnectionIssues, T_IPhoneBatteryDrain,
     S_WiFiBang, T_FixingWifiConnectionProblems, S_FixWifi}

\* guides of the corpus (the fields the matching service reads)
WifiGuide ==
    [title |-> T_FixWiFiNoInternet, problemDescription |-> D_StepsToRestore,
     keywords |-> <<K_wifi, K_internet, K_connection>>]

ConnectionGuide ==
    [title |-> T_FixingWifiConnectionProblems,
     problemDescription |-> D_WifiKeepsDropping,
     keywords |-> <<K_wifi, K_router, K_Bang>>]

BatteryGuide ==
    [title |-> T_PhonePowerSaving, problemDescription |-> <<>>,
     keywords |-> <<K_battery, K_iphone, K_power, K_drain>>]

GuidePool == {WifiGuide, ConnectionGuide, BatteryGuide}

Corpora == UNION {[1..n -> GuidePool] : n \in 0..MaxGuides}

\* the corpus the character-level inputs are matched against: a guide over the
\* same alphabet, and a guide with empty texts and no keywords
BareGuide ==
    [title |-> <<>>, problemDescription |-> <<" ">>, keywords |-> <<>>]

CharGuide ==
    [title |-> <<"a", "B", "a", " ", "a", "_", "a", " ", "B", "-", "B", "B">>,
     problemDescription |-> <<"A", "b", "A", " ", " ", "b", "b", "b", "_">>,
     keywords |-> <<<<"a">>, <<"B", " ", "a">>, <<"-">>>>]

\* keyword lists a caller passes to isDuplicate
CandidateKeywords ==
    {<<>>,
     <<K_battery, K_iphone, K_drain>>,
     <<K_wifi, S_WiFi, S_WiFiBang>>,
     <<K_wifi, K_internet>>}

\* minScore arguments: findMatches' default, findBestMatch's default, and the
\* value GeminiService passes
MinScores == {Rat(3, 10), Rat(4, 10), Rat(5, 10)}

DefaultMinScore == Rat(4, 10)

----------------------------------------------------------------------------
(* The state machine: a corpus, a query, and one service call at a time.   *)

\* no script of the pipeline has been started
PipelineNotStarted ==
    /\ pipeline = "batch"
    /\ mistralKey = FALSE
    /\ tavilyKey = FALSE
    /\ isContinuous = FALSE
    /\ pendingFile = [kind |-> "missing"]
    /\ corpusFile = [kind |-> "missing"]
    /\ runState = "idle"
    /\ timerArmed = FALSE
    /\ cycles = <<>>
    /\ openBrowsers = 0
    /\ world = "none"
    /\ response = <<>>

Init ==
    /\ \/ /\ query \in CharStrings
          /\ guides = <<CharGuide, BareGuide>>
       \/ /\ query \in Phrases \cup ScenarioQueries
          /\ guides \in Corpora
    /\ op = "init"
    /\ text = <<>>
    /\ keywords = <<>>
    /\ minScore = DefaultMinScore
    /\ limit = 0
    /\ ret = Null
    /\ PipelineNotStarted

\* the texts of the corpus a caller compares the query with
CorpusTexts ==
    {guides[i].title : i \in DOMAIN guides}
        \cup {guides[i].problemDescription : i \in DOMAIN guides}

Normalize ==
    /\ op = "init"
    /\ op' = "normalize"
    /\ ret' = normalize(query)
    /\ UNCHANGED <<guides, query, text, keywords, minScore, limit>>
    /\ UNCHANGED pipelineVars

NormalizeText ==
    /\ op = "init"
    /\ op' = "normalizeText"
    /\ ret' = normalizeText(query)
    /\ UNCHANGED <<guides, query, text, keywords, minScore, limit>>
    /\ UNCHANGED pipelineVars

\* calculateWordOverlap(query, text)
CalculateWordOverlap ==
    /\ op = "init"
    /\ \E t \in CorpusTexts :
        /\ text' = t
        /\ ret' = calculateWordOverlap(query, t)
    /\ op' = "calculateWordOverlap"
    /\ UNCHANGED <<guides, query, keywords, minScore, limit>>
    /\ UNCHANGED pipelineVars

\* calculateWordOverlap(text, query): the same texts, arguments exchanged
CalculateWordOverlapSwapped ==
    /\ op = "init"
    /\ \E t \in CorpusTexts :
        /\ text' = t
        /\ ret' = calculateWordOverlap(t, query)
    /\ op' = "calculateWordOverlapSwapped"
    /\ UNCHANGED <<guides, query, keywords, minScore, limit>>
    /\ UNCHANGED pipelineVars

KeywordScore ==
    /\ op = "init"
    /\ \E i \in DOMAIN guides :
        /\ keywords' = guides[i].keywords
        /\ ret' = keywordScore(query, guides[i].keywords)
    /\ op' = "keywordScore"
    /\ UNCHANGED <<guides, query, text, minScore, limit>>
    /\ UNCHANGED pipelineVars

FindBestMatch ==
    /\ op = "init"
    /\ \E ms \in MinScores :
        /\ minScore' = ms
        /\ ret' = findBestMatch(guides, query, ms)
    /\ op' = "findBestMatch"
    /\ UNCHANGED <<guides, query, text, keywords, limit>>
    /\ UNCHANGED pipelineVars

FindMatches ==
    /\ op = "init"
    /\ \E ms \in MinScores, lim \in 0..MaxLimit :
        /\ minScore' = ms
        /\ limit' = lim
        /\ ret' = findMatches(guides, query, lim, ms)
    /\ op' = "findMatches"
    /\ UNCHANGED <<guides, query, text, keywords>>
    /\ UNCHANGED pipelineVars

\* GuideMatchingService.isDuplicate(query, kws), the query being the title
IsDuplicate ==
    /\ op = "init"
    /\ \E kws \in CandidateKeywords :
        /\ keywords' = kws
        /\ ret' = isDuplicate(guides, query, kws)
    /\ op' = "isDuplicate"
    /\ UNCHANGED <<guides, query, text, minScore, limit>>
    /\ UNCHANGED pipelineVars

\* the pipeline's isDuplicate(newGuide, existingGuides) on the same inputs
PipelineIsDuplicate ==
    /\ op = "init"
    /\ \E kws \in CandidateKeywords :
        /\ keywords' = kws
        /\ ret' = pipelineIsDuplicate([title |-> query, keywords |-> kws], guides)
    /\ op' = "pipelineIsDuplicate"
    /\ UNCHANGED <<guides, query, text, minScore, limit>>
    /\ UNCHANGED pipelineVars

\* the caller takes the result; the service is ready for the next call
Return ==
    /\ op # "init"
    /\ op' = "init"
    /\ text' = <<>>
    /\ keywords' = <<>>
    /\ minScore' = DefaultMinScore
    /\ limit' = 0
    /\ ret' = Null
    /\ UNCHANGED <<guides, query>>
    /\ UNCHANGED pipelineVars

Next ==
    \/ Normalize
    \/ NormalizeText
    \/ CalculateWordOverlap
    \/ CalculateWordOverlapSwapped
    \/ KeywordScore
    \/ FindBestMatch
    \/ FindMatches
    \/ IsDuplicate
    \/ PipelineIsDuplicate
    \/ Return

Spec == Init /\ [][Next]_vars

----------------------------------------------------------------------------
(* Discovery pipeline: the safety filter (sw.js and discovery-agent.ts     *)
(* carry the same BLOCKLIST and isSafeContent).                            *)

BLOCKLIST ==
    <<<<"p", "o", "r", "n">>,
      <<"x", "x", "x">>,
      <<"s", "e", "x">>,
      <<"n", "u", "d", "e">>,
      <<"n", "s", "f", "w">>,
      <<"d", "r", "u", "g">>,
      <<"g", "a", "m", "b", "l", "e">>,
      <<"c", "a", "s", "i", "n", "o">>,
      <<"d", "a", "t", "i", "n", "g">>,
      <<"h", "a", "c", "k">>,
      <<"c", "r", "a", "c", "k">>,
      <<"p", "i", "r", "a", "t">>,
      <<"t", "o", "r", "r", "e", "n", "t">>,
      <<"w", "a", "r", "e", "z">>,
      <<"b", "y", "p", "a", "s", "s">>,
      <<"a", "c", "t", "i", "v", "a", "t", "o", "r">>,
      <<"k", "m", "s">>,
      <<"o", "n", "l", "y", "f", "a", "n", "s">>,
      <<"l", "e", "a", "k">>>>

\* BLOCKLIST.some(keyword => lower.includes(keyword)), from the i-th term on
RECURSIVE SomeKeywordIncluded(_, _)
SomeKeywordIncluded(lower, i) ==
    IF i > Len(BLOCKLIST) THEN FALSE
    ELSE IF Includes(lower, BLOCKLIST[i]) THEN TRUE
    ELSE SomeKeywordIncluded(lower, i + 1)

\* the filter without the toLowerCase call
isSafeContent_CaseSensitive(t) ==
    ~SomeKeywordIncluded(t, 1)

isSafeContent(t) ==
    LET lower == toLowerCase(t)
    IN  ~SomeKeywordIncluded(lower, 1)

\* texts handed to the filter
S_EssexWifi == <<"E", "s", "s", "e", "x", " ", "W", "i", "f", "i">>
S_HACK == <<"H", "A", "C", "K">>
S_Unbypassable ==
    <<"U", "n", "b", "y", "p", "a", "s", "s", "a", "b", "l", "e">>
S_CasinoNight ==
    <<"c", "a", "s", "i", "n", "o", " ", "n", "i", "g", "h", "t">>
S_Leek == <<"l", "e", "e", "k">>

SafetyAlphabet == {"s", "e", "E", "x", "X", "k", "m"}

SafetyStrings ==
    UNION {[1..n -> SafetyAlphabet] : n \in 0..MaxLen}
        \cup {S_EssexWifi, S_HACK, S_FixWifi, S_Unbypassable, S_CasinoNight,
              S_Leek}

SafetyInit ==
    /\ query \in SafetyStrings
    /\ guides = <<>>
    /\ op = "init"
    /\ text = <<>>
    /\ keywords = <<>>
    /\ minScore = DefaultMinScore
    /\ limit = 0
    /\ ret = Null
    /\ PipelineNotStarted

IsSafeContent ==
    /\ op = "init"
    /\ op' = "isSafeContent"
    /\ ret' = isSafeContent(query)
    /\ UNCHANGED <<guides, query, text, keywords, minScore, limit>>
    /\ UNCHANGED pipelineVars

SafetyNext ==
    \/ IsSafeContent
    \/ Return

SafetySpec == SafetyInit /\ [][SafetyNext]_vars

----------------------------------------------------------------------------
(* Discovery pipeline: what the outside world supplies.                    *)

MaxResults == 2    \* most results of a search, most links of a fallback search
MaxPending == 2    \* the timer is followed while the pending store is shorter
MaxBrowsers == 1   \* and while fewer browsers are left open
MaxRunning == 2    \* and, while a cycle is in progress, fewer activations exist
MaxLinks == 6      \* most links of a results page, where the page is long

NUM_QUERIES == 5       \* queries per cycle of the batch pipeline
SingleQuery == 1       \* the single-query pipeline builds one query per cycle
FallbackLimit == 5     \* links.slice(0, 5)
RecentNotes == 10      \* notes.slice(-10)

T_HackWifiConnectionIssues ==
    <<"H", "a", "c", "k", " ", "W", "i", "f", "i", " ",
      "C", "o", "n", "n", "e", "c", "t", "i", "o", "n", " ",
      "I", "s", "s", "u", "e", "s">>
N_AddPhotos == <<"a", "d", "d", " ", "p", "h", "o", "t", "o", "s">>

\* search results: { title, body } as searchTavily maps them and as
\* scrapePageContent extracts them; a provider result may lack its title
ItemSafe == [title |-> S_FixWifi, body |-> D_WifiKeepsDropping]
ItemUnsafeTitle == [title |-> S_EssexWifi, body |-> D_WifiKeepsDropping]
ItemUnsafeBody == [title |-> S_FixWifi, body |-> S_CasinoNight]
ItemNoTitle == [body |-> D_WifiKeepsDropping]

TavilyItems == {ItemSafe, ItemUnsafeTitle, ItemUnsafeBody, ItemNoTitle}
ScrapedPages == {ItemSafe, ItemUnsafeTitle, ItemUnsafeBody}

TavilyResults == UNION {[1..n -> TavilyItems] : n \in 0..MaxResults}

\* the JSON object the language model answers with
ContentWifi ==
    [title |-> T_FixWifiConnectionIssues,
     problemDescription |-> D_WifiKeepsDropping,
     keywords |-> <<K_wifi, K_connection, K_router>>]
ContentHack ==
    [title |-> T_HackWifiConnectionIssues,
     problemDescription |-> D_WifiKeepsDropping,
     keywords |-> <<K_wifi, K_connection>>]
ContentBattery ==
    [title |-> T_IPhoneBatteryDrain,
     problemDescription |-> D_StepsToRestore,
     keywords |-> <<K_battery, K_iphone, K_drain>>]
ContentNoTitle == [keywords |-> <<K_wifi>>]

GeneratedContents == {ContentWifi, ContentHack, ContentBattery, ContentNoTitle}

\* a stored record that carries an editor's note
ReviewedGuide ==
    [title |-> T_FixingWifiConnectionProblems,
     problemDescription |-> D_WifiKeepsDropping,
     keywords |-> <<K_wifi, K_router, K_Bang>>,
     aiGenerationNotes |-> N_AddPhotos]

\* a file: missing, not parseable as JSON, or a JSON array of records
MissingFile == [kind |-> "missing"]
CorruptFile == [kind |-> "corrupt"]
JsonFile(records) == [kind |-> "json", data |-> records]

PendingFiles == {MissingFile, CorruptFile, JsonFile(<<ReviewedGuide>>)}
CorpusFiles == {CorruptFile, JsonFile(<<BatteryGuide>>)}

\* the filter's verdict on every text a search can return, computed once
SearchTexts ==
    {item.title : item \in {i \in TavilyItems \cup ScrapedPages :
                               "title" \in DOMAIN i}}
        \cup {item.body : item \in TavilyItems \cup ScrapedPages}

FilterVerdict == [t \in SearchTexts |-> isSafeContent(t)]

HasTitle(x) == "title" \in DOMAIN x
HasBody(x) == "body" \in DOMAIN x
HasNotes(g) == "aiGenerationNotes" \in DOMAIN g

\* what the chat-completions endpoint does with one request: the call fails,
\* the status is no success, the body is no JSON, the JSON has no choices, or
\* the message content of its first choice is a text that parses or does not
NetworkError == [failed |-> TRUE]
Http(status, body) == [status |-> status, body |-> body]
TextBody == [json |-> FALSE]
JsonBody(choices) == [json |-> TRUE, choices |-> choices]
NoChoices == JsonBody(<<>>)
NoJsonContent == JsonBody(<<[parses |-> FALSE]>>)
Completion(value) == JsonBody(<<[parses |-> TRUE, value |-> value]>>)
HttpError == Http(500, TextBody)
Answer(content) == Http(200, Completion(content))

\* response.ok: the status is in the range 200-299
ResponseOk(resp) == resp.status \in 200..299

\* model answers that carry an id of their own
I_guide1 == <<"g", "u", "i", "d", "e", "-", "1">>
ContentWifiWithId ==
    [id |-> I_guide1, title |-> T_FixWifiConnectionIssues,
     problemDescription |-> D_WifiKeepsDropping,
     keywords |-> <<K_wifi, K_connection, K_router>>]
ContentBatteryWithId ==
    [id |-> I_guide1, title |-> T_IPhoneBatteryDrain,
     problemDescription |-> D_StepsToRestore,
     keywords |-> <<K_battery, K_iphone, K_drain>>]

Statuses == {200, 299, 401, 429, 500}

AnsweredContents ==
    {ContentWifi, ContentHack, ContentBattery, ContentNoTitle,
     ContentWifiWithId, ContentBatteryWithId}

ResponseBodies ==
    {TextBody, NoChoices, NoJsonContent, Completion(Null)}
        \cup {Completion(content) : content \in AnsweredContents}

Responses ==
    {NetworkError}
        \cup {Http(status, body) : status \in Statuses, body \in ResponseBodies}

\* `draft-${Date.now()}-${Math.floor(Math.random() * 1000)}`: the clock's
\* millisecond and the random number
Stamp(now, random) == <<"draft", now, random>>

----------------------------------------------------------------------------
(* Discovery pipeline: the synchronous parts of cycle().                   *)

\* the titles of the records of a file that carry a non-blank note
RECURSIVE NotesOf(_)
NotesOf(records) ==
    IF records = <<>> THEN <<>>
    ELSE LET g == Head(records)
         IN  (IF HasNotes(g) /\ Len(Trim(g.aiGenerationNotes)) > 0
              THEN <<g.title>> ELSE <<>>) \o NotesOf(Tail(records))

\* array.slice(-n)
LastN(a, n) == IF Len(a) <= n THEN a ELSE SubSeq(a, Len(a) - n + 1, Len(a))

\* getFeedbackContext: GUIDES_FILE, then OUTPUT_FILE; the first unreadable
\* file ends the scan, the notes collected before it are kept
getFeedbackContext ==
    LET fromCorpus ==
            IF corpusFile.kind = "json" THEN NotesOf(corpusFile.data) ELSE <<>>
        fromPending ==
            IF corpusFile.kind # "corrupt" /\ pendingFile.kind = "json"
            THEN NotesOf(pendingFile.data) ELSE <<>>
    IN  LastN(fromCorpus \o fromPending, RecentNotes)

\* cycle: the records loaded for duplicate detection: OUTPUT_FILE, then
\* GUIDES_FILE; the first unreadable file ends the load
loadExistingGuides ==
    LET fromPending ==
            IF pendingFile.kind = "json" THEN pendingFile.data ELSE <<>>
        fromCorpus ==
            IF pendingFile.kind # "corrupt" /\ corpusFile.kind = "json"
            THEN corpusFile.data ELSE <<>>
    IN  fromPending \o fromCorpus

\* the number of queries of one cycle
NumQueries == IF pipeline = "batch" THEN NUM_QUERIES ELSE SingleQuery

\* a cycle ends by an exception; its locals are gone
Throw(c, what) ==
    [c EXCEPT !.pc = "thrown", !.error = what, !.sourceData = <<>>,
              !.urls = 0]

\* the end of a query's generate loop: the batch pipeline waits a second, the
\* single-query pipeline goes on to its save step
EndOfQuery(c) ==
    IF pipeline = "batch" THEN [c EXCEPT !.pc = "delay"]
    ELSE [c EXCEPT !.pc = "save"]

\* the rest of the loop, after the item at its head
Continue(c) == [c EXCEPT !.sourceData = Tail(c.sourceData)]

\* Variant: the loop filters on the title only.
RECURSIVE GenerateLoop_TitleOnly(_)
GenerateLoop_TitleOnly(c) ==
    IF c.sourceData = <<>> THEN EndOfQuery(c)
    ELSE LET item == Head(c.sourceData)
         IN  IF ~HasTitle(item) THEN Throw(c, "filter")
             ELSE IF ~FilterVerdict[item.title]
             THEN GenerateLoop_TitleOnly(Continue(c))
             ELSE [c EXCEPT !.pc = "generate"]

\* for (const item of sourceData), up to the next await; during the loop
\* sourceData holds the items the loop has not finished, the current one
\* first: items that fail the filter are skipped; isSafeContent(undefined)
\* throws a TypeError
RECURSIVE GenerateLoop(_)
GenerateLoop(c) ==
    IF c.sourceData = <<>> THEN EndOfQuery(c)
    ELSE LET item == Head(c.sourceData)
         IN  IF ~HasTitle(item) THEN Throw(c, "filter")
             ELSE IF ~FilterVerdict[item.title] THEN GenerateLoop(Continue(c))
             ELSE IF ~HasBody(item) THEN Throw(c, "filter")
             ELSE IF ~FilterVerdict[item.body] THEN GenerateLoop(Continue(c))
             ELSE [c EXCEPT !.pc = "generate"]

\* the head of the query loop, up to the first await
BeginQuery(c) ==
    IF tavilyKey THEN [c EXCEPT !.pc = "tavily", !.sourceData = <<>>]
    ELSE [c EXCEPT !.pc = "ddgLaunch", !.sourceData = <<>>]

\* cycle(), from its call to its first await
BeginCycle(byTimer) ==
    BeginQuery([pc |-> "start", byTimer |-> byTimer, q |-> 0,
                feedback |-> getFeedbackContext,
                existingGuides |->
                    IF pipeline = "batch" THEN loadExistingGuides ELSE <<>>,
                sourceData |-> <<>>, urls |-> 0,
                allNewGuides |-> <<>>, candidates |-> FALSE,
                wrote |-> FALSE, error |-> "none"])

\* the save step throws: JSON.parse of an unparseable OUTPUT_FILE, outside
\* any try block
AfterSave(c) ==
    IF c.allNewGuides = <<>> THEN [c EXCEPT !.pc = "done"]
    ELSE IF pendingFile.kind = "corrupt" THEN Throw(c, "save")
    ELSE [c EXCEPT !.pc = "done", !.wrote = TRUE]

\* Variant: the save step writes the file even when nothing was accepted.
SavedFile_WritesEmpty(c) ==
    IF pendingFile.kind # "corrupt"
    THEN JsonFile((IF pendingFile.kind = "json" THEN pendingFile.data
                   ELSE <<>>) \o c.allNewGuides)
    ELSE pendingFile

\* Variant: the save step writes the new drafts over the file.
SavedFile_Overwrite(c) ==
    IF c.allNewGuides # <<>> /\ pendingFile.kind # "corrupt"
    THEN JsonFile(c.allNewGuides)
    ELSE pendingFile

\* OUTPUT_FILE after the save step: [...current, ...allNewGuides]
SavedFile(c) ==
    IF c.allNewGuides # <<>> /\ pendingFile.kind # "corrupt"
    THEN JsonFile((IF pendingFile.kind = "json" THEN pendingFile.data
                   ELSE <<>>) \o c.allNewGuides)
    ELSE pendingFile

Ended(c) == c.pc \in {"done", "thrown"}

\* Variant: run() arms the timer without looking at the flag.
ArmsTimer_Always(c) == c.pc = "done"

\* run, after await cycle(): if (isContinuous) setInterval(cycle, ...);
\* a rejected cycle() rejects run() before that line
ArmsTimer(c) == c.pc = "done" /\ isContinuous

\* the cycle in a slot has run up to its next await (or its end) and is c;
\* the save step, when reached, and run()'s continuation are part of the step
Settle(slot, c) ==
    LET ended == IF c.pc = "save" THEN AfterSave(c) ELSE c
    IN  /\ cycles' = [cycles EXCEPT ![slot] = ended]
        /\ pendingFile' = IF c.pc = "save" THEN SavedFile(c) ELSE pendingFile
        /\ IF Ended(ended) /\ ~ended.byTimer
           THEN IF ArmsTimer(ended)
                THEN runState' = "scheduled" /\ timerArmed' = TRUE
                ELSE runState' = "exited" /\ timerArmed' = timerArmed
           ELSE UNCHANGED <<runState, timerArmed>>
        /\ UNCHANGED <<world, response>>
        /\ UNCHANGED <<pipeline, mistralKey, tavilyKey, isContinuous,
                       corpusFile>>
        /\ UNCHANGED serviceVars

\* the cycle of a slot waits at an await of the given kind
Awaits(slot, pc) ==
    /\ runState \in {"running", "scheduled"}
    /\ cycles[slot].pc = pc

----------------------------------------------------------------------------
(* Discovery pipeline: generateGuideFromContent.                           *)

\* the outcome of a block that ends by an exception
Thrown == [thrown |-> TRUE]

\* { id: ..., ...content, meta }: the fields of the model's answer are spread
\* over the stamped id (the meta block is left out)
Draft(content, stamp) == content @@ [id |-> stamp]

\* the try block: fetch, if (!response.ok) throw, await response.json(),
\* JSON.parse(data.choices[0].message.content), content.difficulty
TryGenerate(resp, stamp) ==
    IF resp = NetworkError THEN Thrown
    ELSE IF ~ResponseOk(resp) THEN Thrown
    ELSE IF ~resp.body.json THEN Thrown
    ELSE IF resp.body.choices = <<>> THEN Thrown
    ELSE IF ~resp.body.choices[1].parses THEN Thrown
    ELSE IF resp.body.choices[1].value = Null THEN Thrown
    ELSE Draft(resp.body.choices[1].value, stamp)

\* Variant: the status check stands before the try block.
generateGuideFromContent_StatusUnguarded(key, resp, stamp) ==
    IF ~key THEN [value |-> Null, requests |-> 0]
    ELSE IF resp # NetworkError /\ ~ResponseOk(resp)
    THEN [value |-> Thrown, requests |-> 1]
    ELSE LET r == TryGenerate(resp, stamp)
         IN  [value |-> IF r = Thrown THEN Null ELSE r, requests |-> 1]

\* if (!MISTRAL_API_KEY) return null; try { ... } catch (e) { return null; }
\* value is what the call returns, requests the requests it has sent
generateGuideFromContent(key, resp, stamp) ==
    IF ~key THEN [value |-> Null, requests |-> 0]
    ELSE LET r == TryGenerate(resp, stamp)
         IN  [value |-> IF r = Thrown THEN Null ELSE r, requests |-> 1]

----------------------------------------------------------------------------
(* Discovery pipeline: the steps of run() and cycle().                     *)

ServiceNotCalled ==
    /\ guides = <<>>
    /\ query = <<>>
    /\ op = "init"
    /\ text = <<>>
    /\ keywords = <<>>
    /\ minScore = DefaultMinScore
    /\ limit = 0
    /\ ret = Null

\* the answers the services can give in a run: the result lists of the
\* primary search, the most links a results page shows, the pages the
\* extraction finds, the answers of the generation endpoint, the ids the
\* clock and the random number give, whether the primary search and the
\* browser can fail, and whether a cycle can outlast the timer's interval
AnyWorld ==
    [results |-> TavilyResults,
     links |-> MaxResults,
     pages |-> ScrapedPages,
     responses |-> {HttpError} \cup {Answer(c) : c \in GeneratedContents},
     stamps |-> {Stamp(1, 1)},
     faults |-> TRUE,
     slow |-> FALSE]

\* a results page with more links than the fallback takes; no generation key
LongPageWorld ==
    [results |-> {<<>>, <<ItemSafe>>},
     links |-> MaxLinks,
     pages |-> {ItemSafe},
     responses |-> {HttpError},
     stamps |-> {Stamp(1, 1)},
     faults |-> TRUE,
     slow |-> FALSE]

\* answers with and without an id of their own; two generations may fall
\* into the same millisecond with the same random number, or not
IdWorld ==
    [results |-> {<<ItemSafe, ItemSafe>>},
     links |-> 0,
     pages |-> {},
     responses |-> {Answer(ContentWifi), Answer(ContentWifiWithId),
                    Answer(ContentBatteryWithId)},
     stamps |-> {Stamp(1, 1), Stamp(1, 2)},
     faults |-> FALSE,
     slow |-> FALSE]

\* cycles that outlast the interval; one result per search, with or without
\* a title, and one answer of the model or none
OverlapWorld ==
    [results |-> {<<ItemSafe>>, <<ItemNoTitle>>},
     links |-> 0,
     pages |-> {},
     responses |-> {HttpError, Answer(ContentWifi)},
     stamps |-> {Stamp(1, 1)},
     faults |-> FALSE,
     slow |-> TRUE]

\* the surroundings of the run, by name
Surroundings ==
    CASE world = "any" -> AnyWorld
      [] world = "long page" -> LongPageWorld
      [] world = "ids" -> IdWorld
      [] world = "overlap" -> OverlapWorld

PipelineInit ==
    /\ world = "any"
    /\ response = <<>>
    /\ pipeline \in {"batch", "single"}
    /\ mistralKey \in BOOLEAN
    /\ tavilyKey \in BOOLEAN
    /\ isContinuous \in BOOLEAN
    /\ pendingFile \in PendingFiles
    /\ corpusFile \in CorpusFiles
    /\ runState = "idle"
    /\ timerArmed = FALSE
    /\ cycles = <<>>
    /\ openBrowsers = 0
    /\ ServiceNotCalled

\* run(): await cycle()
Run ==
    /\ runState = "idle"
    /\ runState' = "running"
    /\ cycles' = <<BeginCycle(FALSE)>>
    /\ UNCHANGED <<world, response>>
    /\ UNCHANGED <<pipeline, mistralKey, tavilyKey, isContinuous, pendingFile,
                   corpusFile, timerArmed, openBrowsers>>
    /\ UNCHANGED serviceVars

\* the number of records of the pending store
PendingSize == IF pendingFile.kind = "json" THEN Len(pendingFile.data) ELSE 0

\* the interval elapses while no cycle is in progress: cycle() is called again
TimerTick ==
    /\ runState = "scheduled"
    /\ timerArmed
    /\ \A slot \in DOMAIN cycles : Ended(cycles[slot])
    /\ PendingSize < MaxPending
    /\ openBrowsers < MaxBrowsers
    /\ cycles' = <<BeginCycle(TRUE)>>
    /\ UNCHANGED <<world, response>>
    /\ UNCHANGED <<pipeline, mistralKey, tavilyKey, isContinuous, pendingFile,
                   corpusFile, runState, timerArmed, openBrowsers>>
    /\ UNCHANGED serviceVars

\* a cycle called by the timer has thrown: nothing handles the rejected
\* promise, and the runtime ends the process (or, configured to warn, goes on)
UnhandledRejection ==
    /\ runState = "scheduled"
    /\ \E slot \in DOMAIN cycles :
           cycles[slot].pc = "thrown" /\ cycles[slot].byTimer
    /\ runState' = "exited"
    /\ UNCHANGED <<world, response>>
    /\ UNCHANGED <<pipeline, mistralKey, tavilyKey, isContinuous, pendingFile,
                   corpusFile, timerArmed, cycles, openBrowsers>>
    /\ UNCHANGED serviceVars

\* searchTavily returns: null on any error, else the mapped results
SearchTavilyReturns ==
    \E slot \in DOMAIN cycles :
        /\ Awaits(slot, "tavily")
        /\ LET c == cycles[slot]
           IN  \/ /\ Surroundings.faults
                  /\ Settle(slot, [c EXCEPT !.pc = "ddgLaunch"])
               \/ \E results \in Surroundings.results :
                      IF Len(results) > 0
                      THEN Settle(slot,
                               GenerateLoop([c EXCEPT !.sourceData = results,
                                                      !.candidates = TRUE]))
                      ELSE Settle(slot, [c EXCEPT !.pc = "ddgLaunch"])
        /\ UNCHANGED openBrowsers

\* searchWebDuckDuckGo: chromium.launch, before the try block
DuckDuckGoLaunch ==
    \E slot \in DOMAIN cycles :
        /\ Awaits(slot, "ddgLaunch")
        /\ LET c == cycles[slot]
           IN  \/ /\ Surroundings.faults
                  /\ Settle(slot, Throw(c, "launch"))
                  /\ UNCHANGED openBrowsers
               \/ /\ Settle(slot, [c EXCEPT !.pc = "ddgSearch"])
                  /\ openBrowsers' = openBrowsers + 1

\* the loop over the urls of the fallback search, up to the next await
ScrapeLoop(c) ==
    IF c.urls > 0 THEN [c EXCEPT !.pc = "scrapeLaunch"]
    ELSE GenerateLoop(c)

\* Variant: the function returns and leaves its browser open.
BrowsersAfterClose_Left(open) == open

\* finally { await browser.close(); }: whatever way the try block ended
BrowsersAfterClose(open) == open - 1

\* Variant: the links are returned without the slice.
FirstLinks_All(found) == found

\* links.slice(0, 5), of as many links as the results page shows
FirstLinks(found) == IF found < FallbackLimit THEN found ELSE FallbackLimit

\* searchWebDuckDuckGo: the try block (an error is caught and gives no
\* links; at most links.slice(0, 5) otherwise), then finally
\* { await browser.close() }, whose error nothing catches
DuckDuckGoReturns ==
    \E slot \in DOMAIN cycles :
        /\ Awaits(slot, "ddgSearch")
        /\ LET c == cycles[slot]
           IN  \/ /\ Surroundings.faults
                  /\ Settle(slot, Throw(c, "close"))
                  /\ UNCHANGED openBrowsers
               \/ /\ \E found \in 0..Surroundings.links :
                         Settle(slot,
                                ScrapeLoop([c EXCEPT
                                                !.urls = FirstLinks(found)]))
                  /\ openBrowsers' = BrowsersAfterClose(openBrowsers)

\* scrapePageContent: chromium.launch, before the try block
ScrapeLaunch ==
    \E slot \in DOMAIN cycles :
        /\ Awaits(slot, "scrapeLaunch")
        /\ LET c == cycles[slot]
           IN  \/ /\ Surroundings.faults
                  /\ Settle(slot, Throw(c, "launch"))
                  /\ UNCHANGED openBrowsers
               \/ /\ Settle(slot, [c EXCEPT !.pc = "scrapePage"])
                  /\ openBrowsers' = openBrowsers + 1

\* the caller's if (data && isSafeContent(data.title))
\* sourceData.push({ ...data, url }), and the rest of the loop over the urls
Scraped(c, data) ==
    LET kept == IF data # <<>> /\ FilterVerdict[data[1].title]
                THEN data ELSE <<>>
    IN  ScrapeLoop([c EXCEPT !.sourceData = c.sourceData \o kept,
                             !.candidates = c.candidates \/ data # <<>>,
                             !.urls = c.urls - 1])

\* scrapePageContent: the try block (the page's title and body, or null for
\* an error or a body of at most 200 characters), then finally
\* { await browser.close() }, whose error nothing catches
ScrapePageReturns ==
    \E slot \in DOMAIN cycles :
        /\ Awaits(slot, "scrapePage")
        /\ LET c == cycles[slot]
           IN  \/ /\ Surroundings.faults
                  /\ Settle(slot, Throw(c, "close"))
                  /\ UNCHANGED openBrowsers
               \/ /\ \/ Settle(slot, Scraped(c, <<>>))
                     \/ \E page \in Surroundings.pages :
                            Settle(slot, Scraped(c, <<page>>))
                  /\ openBrowsers' = BrowsersAfterClose(openBrowsers)

\* Variant: a draft is compared with the loaded records only.
allExisting_LoadedOnly(c) == c.existingGuides

\* cycle: const allExisting = [...existingGuides, ...allNewGuides]
allExisting(c) == c.existingGuides \o c.allNewGuides

\* if (guide) { ... }: the batch pipeline pushes a guide that is no duplicate
\* (normalizeText(undefined) throws for a guide without a title); the
\* single-query pipeline pushes every guide
acceptGuide(c, guide) ==
    IF pipeline = "batch"
    THEN IF ~HasTitle(guide) THEN Throw(c, "isDuplicate")
         ELSE IF pipelineIsDuplicate(guide, allExisting(c)) THEN c
         ELSE [c EXCEPT !.allNewGuides = Append(c.allNewGuides, guide)]
    ELSE [c EXCEPT !.allNewGuides = Append(c.allNewGuides, guide)]

\* generateGuideFromContent returns null: no key, a failed request, or an
\* answer that is no JSON
GenerateGuideFails ==
    \E slot \in DOMAIN cycles :
        /\ Awaits(slot, "generate")
        /\ \E resp \in Surroundings.responses, stamp \in Surroundings.stamps :
               generateGuideFromContent(mistralKey, resp, stamp).value = Null
        /\ Settle(slot, GenerateLoop(Continue(cycles[slot])))
        /\ UNCHANGED openBrowsers

\* generateGuideFromContent returns { id, ...content, meta } for the JSON
\* value the model answered with
GenerateGuideReturns ==
    \E slot \in DOMAIN cycles :
        /\ Awaits(slot, "generate")
        /\ \E resp \in Surroundings.responses, stamp \in Surroundings.stamps :
               LET guide ==
                       generateGuideFromContent(mistralKey, resp, stamp).value
                   c == acceptGuide(cycles[slot], guide)
               IN  /\ guide # Null
                   /\ IF c.pc = "thrown" THEN Settle(slot, c)
                      ELSE Settle(slot, GenerateLoop(Continue(c)))
        /\ UNCHANGED openBrowsers

\* the one-second delay after a query of the batch pipeline has passed
QueryDelay ==
    \E slot \in DOMAIN cycles :
        /\ Awaits(slot, "delay")
        /\ LET c == [cycles[slot] EXCEPT !.q = cycles[slot].q + 1]
           IN  IF c.q < NumQueries THEN Settle(slot, BeginQuery(c))
               ELSE Settle(slot, [c EXCEPT !.pc = "save"])
        /\ UNCHANGED openBrowsers

PipelineNext ==
    \/ Run
    \/ TimerTick
    \/ UnhandledRejection
    \/ SearchTavilyReturns
    \/ DuckDuckGoLaunch
    \/ DuckDuckGoReturns
    \/ ScrapeLaunch
    \/ ScrapePageReturns
    \/ GenerateGuideFails
    \/ GenerateGuideReturns
    \/ QueryDelay

PipelineSpec == PipelineInit /\ [][PipelineNext]_vars

\* every external call eventually returns or fails, the event loop runs every
\* continuation that is ready, and the interval elapses
PipelineFairSpec == PipelineSpec /\ WF_vars(PipelineNext)

----------------------------------------------------------------------------
(* The pipeline in chosen surroundings: a long results page, answers that  *)
(* carry ids, and an interval that elapses while a cycle is in progress.   *)

\* the interval elapses while a cycle is in progress: setInterval calls
\* cycle() again, whatever the earlier activations are doing
TimerTickWhileRunning ==
    /\ runState = "scheduled"
    /\ timerArmed
    /\ Surroundings.slow
    /\ \E slot \in DOMAIN cycles : ~Ended(cycles[slot])
    /\ Len(cycles) < MaxRunning
    /\ PendingSize < MaxPending
    /\ openBrowsers < MaxBrowsers
    /\ cycles' = Append(cycles, BeginCycle(TRUE))
    /\ UNCHANGED <<world, response>>
    /\ UNCHANGED <<pipeline, mistralKey, tavilyKey, isContinuous, pendingFile,
                   corpusFile, runState, timerArmed, openBrowsers>>
    /\ UNCHANGED serviceVars

ScenarioInit ==
    /\ \/ /\ world = "long page"
          /\ pipeline \in {"batch", "single"}
          /\ tavilyKey \in BOOLEAN
          /\ mistralKey = FALSE
          /\ isContinuous = FALSE
          /\ pendingFile = MissingFile
          /\ corpusFile = JsonFile(<<BatteryGuide>>)
       \/ /\ world = "ids"
          /\ pipeline \in {"batch", "single"}
          /\ tavilyKey = TRUE
          /\ mistralKey = TRUE
          /\ isContinuous \in BOOLEAN
          /\ pendingFile \in {MissingFile, JsonFile(<<ReviewedGuide>>)}
          /\ corpusFile = JsonFile(<<BatteryGuide>>)
       \/ /\ world = "overlap"
          /\ pipeline \in {"batch", "single"}
          /\ tavilyKey = TRUE
          /\ mistralKey = TRUE
          /\ isContinuous \in BOOLEAN
          /\ pendingFile = MissingFile
          /\ corpusFile = JsonFile(<<BatteryGuide>>)
    /\ response = <<>>
    /\ runState = "idle"
    /\ timerArmed = FALSE
    /\ cycles = <<>>
    /\ openBrowsers = 0
    /\ ServiceNotCalled

ScenarioNext ==
    \/ PipelineNext
    \/ TimerTickWhileRunning

ScenarioSpec == ScenarioInit /\ [][ScenarioNext]_vars

----------------------------------------------------------------------------
(* generateGuideFromContent as a function of the key and of what the       *)
(* endpoint answers.                                                       *)

GeneratorInit ==
    /\ mistralKey \in BOOLEAN
    /\ response \in Responses
    /\ world = "ids"
    /\ pipeline \in {"batch", "single"}
    /\ tavilyKey = FALSE
    /\ isContinuous = FALSE
    /\ pendingFile = MissingFile
    /\ corpusFile = MissingFile
    /\ runState = "idle"
    /\ timerArmed = FALSE
    /\ cycles = <<>>
    /\ openBrowsers = 0
    /\ ServiceNotCalled

GenerateGuideFromContent ==
    /\ op = "init"
    /\ op' = "generateGuideFromContent"
    /\ \E stamp \in Surroundings.stamps :
           ret' = generateGuideFromContent(mistralKey, response, stamp)
    /\ UNCHANGED <<guides, query, text, keywords, minScore, limit>>
    /\ UNCHANGED pipelineVars

GeneratorNext ==
    \/ GenerateGuideFromContent
    \/ Return

GeneratorSpec == GeneratorInit /\ [][GeneratorNext]_vars

----------------------------------------------------------------------------
(* Vocabulary of the properties.                                           *)

\* the distinct tokens of a normalized string, as a set
Tokens(t) == Range(Split(normalize(t)))

\* a score lies in [0, 1]
InUnitInterval(score) ==
    /\ score.den > 0
    /\ score.num >= 0
    /\ score.num <= score.den

\* 0.4 * wordOverlap(title) + 0.3 * wordOverlap(description) + 0.3 * keywordScore
WeightedTotal(q, guide) ==
    LET t == calculateWordOverlap(q, guide.title)
        d == calculateWordOverlap(q, guide.problemDescription)
        k == keywordScore(q, guide.keywords)
    IN  Rat(4 * t.num * d.den * k.den + 3 * d.num * t.den * k.den
                + 3 * k.num * t.den * d.den,
            10 * t.den * d.den * k.den)

WifiScenario ==
    /\ guides = <<WifiGuide>>
    /\ query = Q_WifiNotConnecting
    /\ op = "findBestMatch"

\* C2, as stated: in the Wi-Fi scenario findBestMatch with the default minScore
\* 0.4 returns a non-null result whose score is at least 0.4.
C2_ScenarioMatches ==
    (WifiScenario /\ minScore = DefaultMinScore) =>
        /\ ret # Null
        /\ RatGe(ret.score, Rat(4, 10))

\* C2, amended: in the Wi-Fi scenario the guide's total is 1/3 (title overlap,
\* description overlap and keyword score are 1/3 each), so findBestMatch returns
\* null for the default minScore 0.4 and for every minScore above 1/3, and
\* returns the guide with score 1/3 for a minScore of at most 1/3.
C2_ScenarioScoresOneThird ==
    WifiScenario =>
        /\ RatGt(minScore, Rat(1, 3)) => ret = Null
        /\ RatLe(minScore, Rat(1, 3)) =>
            /\ ret # Null
            /\ ret.guide = 1
            /\ RatEq(ret.score, Rat(1, 3))

\* C2 witness: the scenario was run with the default minScore
C2_Witness ==
    /\ WifiScenario
    /\ minScore = DefaultMinScore
    /\ ret = Null

\* C3: findBestMatch returns null exactly when every guide's weighted total is
\* below minScore; a result carries the total of the guide it names, that total
\* is at least minScore, and no guide of the corpus has a strictly higher total.
C3_BestMatchIsMaximum ==
    op = "findBestMatch" =>
        /\ ret = Null <=>
            \A i \in DOMAIN guides : RatLt(WeightedTotal(query, guides[i]), minScore)
        /\ ret # Null =>
            /\ ret.guide \in DOMAIN guides
            /\ RatEq(ret.score, WeightedTotal(query, guides[ret.guide]))
            /\ RatGe(ret.score, minScore)
            /\ \A i \in DOMAIN guides :
                ~RatGt(WeightedTotal(query, guides[i]), ret.score)

\* C3 witness: the best match is not the first guide, and another guide also
\* qualified with a strictly lower total
C3_Witness ==
    /\ op = "findBestMatch"
    /\ ret # Null
    /\ ret.guide > 1
    /\ \E i \in DOMAIN guides :
        /\ RatGe(WeightedTotal(query, guides[i]), minScore)
        /\ RatLt(WeightedTotal(query, guides[i]), ret.score)

\* C4: among the guides that share the highest total, findBestMatch returns the
\* one that comes first in the corpus: the result is the first position whose
\* total is the maximum.
C4_TieKeepsCorpusOrder ==
    (op = "findBestMatch" /\ ret # Null) =>
        \A i \in DOMAIN guides :
            RatEq(WeightedTotal(query, guides[i]), ret.score) => ret.guide <= i

\* C4 witness: a later guide ties with the returned one
C4_Witness ==
    /\ op = "findBestMatch"
    /\ ret # Null
    /\ \E i \in DOMAIN guides :
        /\ i > ret.guide
        /\ RatEq(WeightedTotal(query, guides[i]), ret.score)

\* C5: calculateWordOverlap and keywordScore return a value in [0, 1], and so
\* does the score of every MatchResult of findBestMatch and findMatches.
C5_ScoresInUnitInterval ==
    /\ op \in {"calculateWordOverlap", "calculateWordOverlapSwapped", "keywordScore"}
        => InUnitInterval(ret)
    /\ (op = "findBestMatch" /\ ret # Null) => InUnitInterval(ret.score)
    /\ op = "findMatches" => \A k \in DOMAIN ret : InUnitInterval(ret[k].score)

\* C5 witness: a keyword list with a keyword that normalizes to the empty string
\* (contained in every query) reaches the score 1
C5_Witness ==
    /\ op = "keywordScore"
    /\ \E k \in DOMAIN keywords : normalize(keywords[k]) = <<>>
    /\ ret.num = ret.den

\* C6: calculateWordOverlap is directional.  Both directions count the same
\* matches, but each divides by the number of distinct tokens of its own first
\* argument, so the two scores differ exactly when there is a match and the two
\* token counts differ.
C6_Directional ==
    op = "calculateWordOverlapSwapped" =>
        LET forward == calculateWordOverlap(query, text)
        IN  /\ forward.num = ret.num
            /\ forward.den = Cardinality(Tokens(query))
            /\ ret.den = Cardinality(Tokens(text))
            /\ ~RatEq(forward, ret) <=>
                (ret.num > 0 /\ Cardinality(Tokens(query)) # Cardinality(Tokens(text)))

\* C6 witness: two texts whose scores differ between the two directions
C6_Witness ==
    /\ op = "calculateWordOverlapSwapped"
    /\ ~RatEq(calculateWordOverlap(query, text), ret)

\* the characters a normalized string may hold
IsNormalized(s, keep(_)) ==
    /\ \A i \in DOMAIN s : s[i] = " " \/ (keep(s[i]) /\ ~IsSpace(s[i]))
    /\ \A i \in DOMAIN s : s[i] \notin UpperCaseLetters
    /\ \A i \in DOMAIN s : s[i] = " " => i \notin {1, Len(s)} /\ s[i + 1] # " "

CommonKeywordCount(kws, guide) ==
    Cardinality({j \in DOMAIN kws :
        \E k \in DOMAIN guide.keywords : normalize(guide.keywords[k]) = normalize(kws[j])})

\* C8: GuideMatchingService.isDuplicate(title, keywords) is true exactly when
\* some guide has a title overlap above 0.7 with the candidate title or at least
\* 3 candidate keywords in common; "iPhone Battery Drain" with keywords battery,
\* iphone, drain is a duplicate of a guide with keywords battery, iphone, power,
\* drain.
C8_DuplicateTriggers ==
    op = "isDuplicate" =>
        /\ ret <=>
            \E i \in DOMAIN guides :
                \/ RatGt(calculateWordOverlap(query, guides[i].title), Rat(7, 10))
                \/ CommonKeywordCount(keywords, guides[i]) >= 3
        /\ ( /\ query = T_IPhoneBatteryDrain
             /\ keywords = <<K_battery, K_iphone, K_drain>>
             /\ \E i \in DOMAIN guides : guides[i] = BatteryGuide ) => ret

\* C8 witness: the keyword trigger alone, the titles sharing no word
C8_Witness ==
    /\ op = "isDuplicate"
    /\ query = T_IPhoneBatteryDrain
    /\ keywords = <<K_battery, K_iphone, K_drain>>
    /\ guides = <<BatteryGuide>>
    /\ calculateWordOverlap(query, guides[1].title).num = 0
    /\ ret

\* The scenario of C9: the candidate "Fix Wifi Connection Issues" against the
\* guide "Fixing Wifi Connection Problems", fewer than 3 keywords in common.
ConnectionScenario ==
    /\ op \in {"isDuplicate", "pipelineIsDuplicate"}
    /\ query = T_FixWifiConnectionIssues
    /\ guides = <<ConnectionGuide>>
    /\ CommonKeywordCount(keywords, ConnectionGuide) < 3

\* C9, as stated: in the connection scenario the candidate is declared a
\* duplicate by GuideMatchingService.isDuplicate and by the pipeline's
\* isDuplicate.
C9_ScenarioIsDuplicate ==
    ConnectionScenario => ret

\* C9, amended: in the connection scenario the title similarity is 2/4 = 0.5 in
\* both implementations (only "wifi" and "connection" match), which is not above
\* 0.7, and neither function declares the candidate a duplicate.
C9_ScenarioIsNotDuplicate ==
    ConnectionScenario =>
        /\ ~ret
        /\ RatEq(calculateWordOverlap(query, guides[1].title), Rat(1, 2))
        /\ RatEq(pipelineTitleSimilarity(query, guides[1].title), Rat(1, 2))

\* C9 witness: the pipeline's isDuplicate ran on the scenario
C9_Witness ==
    /\ ConnectionScenario
    /\ op = "pipelineIsDuplicate"
    /\ ~ret

\* the guides whose weighted total reaches minScore
Qualifying == {i \in DOMAIN guides : RatGe(WeightedTotal(query, guides[i]), minScore)}

\* C10: findMatches returns at most limit results, each a distinct qualifying
\* guide with its total as score, in non-increasing score order, as many as the
\* limit and the number of qualifying guides allow, and no guide left out has a
\* strictly higher total than a guide of the result.
C10_TopLimitPrefix ==
    op = "findMatches" =>
        /\ Len(ret) <= limit
        /\ Len(ret) = (IF Cardinality(Qualifying) < limit
                       THEN Cardinality(Qualifying) ELSE limit)
        /\ \A k \in DOMAIN ret :
            /\ ret[k].guide \in Qualifying
            /\ RatEq(ret[k].score, WeightedTotal(query, guides[ret[k].guide]))
            /\ RatGe(ret[k].score, minScore)
        /\ \A k, l \in DOMAIN ret :
            k < l => (RatGe(ret[k].score, ret[l].score)
                      /\ ret[k].guide # ret[l].guide)
        /\ \A i \in DOMAIN guides :
            (\A k \in DOMAIN ret : ret[k].guide # i) =>
                \A k \in DOMAIN ret :
                    ~RatGt(WeightedTotal(query, guides[i]), ret[k].score)

\* C10 witness: the limit cut off a qualifying guide that comes earlier in the
\* corpus and has a strictly lower total than the guide returned
C10_Witness ==
    /\ op = "findMatches"
    /\ limit >= 1
    /\ Len(ret) = limit
    /\ \E i \in Qualifying :
        /\ \A k \in DOMAIN ret : ret[k].guide # i
        /\ i < ret[Len(ret)].guide
        /\ RatLt(WeightedTotal(query, guides[i]), ret[Len(ret)].score)

\* a term occurs in a string at some position
OccursIn(term, s) ==
    \E p \in 1..Len(s) :
        /\ p + Len(term) - 1 <= Len(s)
        /\ SubSeq(s, p, p + Len(term) - 1) = term

\* C11: isSafeContent(text) is false exactly when the lowercased text holds
\* a BLOCKLIST term as a substring at some position, whatever the case of
\* the text and whatever surrounds the term; any other text passes (true).
C11_SafeIffNoBlockedSubstring ==
    op = "isSafeContent" =>
        /\ ret \in BOOLEAN
        /\ (ret = FALSE) <=>
               \E i \in DOMAIN BLOCKLIST :
                   OccursIn(BLOCKLIST[i], toLowerCase(query))

\* a term inside a word, in mixed case, is caught
C11_Witness ==
    /\ op = "isSafeContent"
    /\ query = S_EssexWifi
    /\ ret = FALSE

----------------------------------------------------------------------------
(* Properties of the discovery pipeline.                                   *)

\* the cycles in progress or ended
Cycles == {cycles[slot] : slot \in DOMAIN cycles}

\* the records a file holds for a reader that treats a bad file as empty
RecordsOf(file) == IF file.kind = "json" THEN file.data ELSE <<>>

\* C12: the generator is called for a candidate only when its title and its
\* body both passed isSafeContent: a cycle waiting for the generator is
\* always waiting on a candidate that has a title and a body, both safe.
C12_GeneratorOnlyForSafeCandidates ==
    \A c \in Cycles :
        c.pc = "generate" =>
            LET item == Head(c.sourceData)
            IN  /\ HasTitle(item) /\ isSafeContent(item.title)
                /\ HasBody(item) /\ isSafeContent(item.body)

\* on the fallback path the generator runs for a safe page while a page with
\* a denylisted body waits behind it
C12_Witness ==
    /\ ~tavilyKey
    /\ \E c \in Cycles :
           c.pc = "generate" /\ c.sourceData = <<ItemSafe, ItemUnsafeBody>>

\* C13 (as the specification states it): the title and the problemDescription
\* of every draft a cycle has written to the pending store pass isSafeContent.
C13_WrittenDraftsAreSafe ==
    \A c \in Cycles :
        c.wrote =>
            \A k \in DOMAIN c.allNewGuides :
                LET g == c.allNewGuides[k]
                IN  /\ HasTitle(g) => isSafeContent(g.title)
                    /\ "problemDescription" \in DOMAIN g
                           => isSafeContent(g.problemDescription)

C15_CycleNeverThrows ==
    \A c \in Cycles : c.pc # "thrown"

\* C16 (as the specification states it): a missing or corrupt store file
\* never makes a cycle throw, and the drafts accepted in the cycle are still
\* written.
C16_BadStoreNeverThrows ==
    \A c \in Cycles :
        /\ c.error # "save"
        /\ c.pc = "done" /\ c.allNewGuides # <<>> => c.wrote

\* C17: a step changes the pending store only when a cycle's save step
\* completes, and then to the records the file held followed by the cycle's
\* accepted drafts in acceptance order; a completing cycle with accepted
\* drafts does write; the corpus file never changes.
C17_SaveAppends ==
    [][/\ corpusFile' = corpusFile
       /\ \A slot \in DOMAIN cycles :
              (slot \in DOMAIN cycles' /\ cycles[slot].pc # "done"
                   /\ cycles'[slot].pc = "done"
                   /\ cycles'[slot].allNewGuides # <<>>)
              => pendingFile' =
                     JsonFile(RecordsOf(pendingFile)
                                  \o cycles'[slot].allNewGuides)
       /\ pendingFile' # pendingFile
              => \E slot \in DOMAIN cycles :
                     /\ slot \in DOMAIN cycles'
                     /\ cycles[slot].pc # "done"
                     /\ cycles'[slot].pc = "done"
                     /\ pendingFile' =
                            JsonFile(RecordsOf(pendingFile)
                                         \o cycles'[slot].allNewGuides)
      ]_vars

\* two drafts appended, in acceptance order, behind the record already stored
C17_Witness ==
    \E c \in Cycles :
        /\ c.pc = "done"
        /\ Len(c.allNewGuides) = 2
        /\ \A k \in 1..2 : HasTitle(c.allNewGuides[k])
        /\ c.allNewGuides[1].title = ContentBattery.title
        /\ c.allNewGuides[2].title = ContentWifi.title
        /\ pendingFile = JsonFile(<<ReviewedGuide>> \o c.allNewGuides)

\* C18: without --continuous the timer is never armed, cycle() is called
\* once (by run(), never by the timer), and eventually that cycle has ended
\* and the process has exited.
C18_OneShotTerminates ==
    ~isContinuous =>
        /\ [](/\ ~timerArmed
              /\ Len(cycles) <= 1
              /\ \A c \in Cycles : ~c.byTimer)
        /\ <>(runState = "exited" /\ \A c \in Cycles : Ended(c))

\* the one-shot process has exited after a cycle that saved a draft
C18_Witness ==
    /\ ~isContinuous
    /\ runState = "exited"
    /\ ~timerArmed
    /\ \E c \in Cycles : c.pc = "done" /\ c.wrote

\* C19 (as the specification states it): in continuous mode the orchestrator
\* has no terminal state, however a cycle ends.
C19_ContinuousNeverExits ==
    isContinuous => runState # "exited"

\* C20: in the batch pipeline no accepted draft is a duplicate, per
\* isDuplicate, of a record loaded at cycle start or of a draft accepted
\* earlier in the same cycle.
C20_NoDuplicateAccepted ==
    pipeline = "batch" =>
        \A c \in Cycles :
            \A k \in DOMAIN c.allNewGuides :
                /\ \A e \in DOMAIN c.existingGuides :
                       ~pipelineIsDuplicate(c.allNewGuides[k],
                                            <<c.existingGuides[e]>>)
                /\ \A j \in 1..(k - 1) :
                       ~pipelineIsDuplicate(c.allNewGuides[k],
                                            <<c.allNewGuides[j]>>)

\* two drafts accepted against a loaded record, in a later query of the cycle
C20_Witness ==
    /\ pipeline = "batch"
    /\ \E c \in Cycles :
           /\ Len(c.allNewGuides) = 2
           /\ c.existingGuides # <<>>
           /\ c.q > 0

\* C21: in the single-query pipeline a draft is written to the pending store
\* only if it is no duplicate of a corpus guide, of a record the pending store
\* held, or of a draft accepted earlier in the same cycle.
C21_SingleWritesNoDuplicate ==
    pipeline = "single" =>
        \A c \in Cycles :
            c.wrote =>
                LET written == c.allNewGuides
                    before == SubSeq(RecordsOf(pendingFile), 1,
                                     PendingSize - Len(written))
                IN  \A k \in DOMAIN written :
                        HasTitle(written[k]) =>
                            ~pipelineIsDuplicate(
                                 written[k],
                                 RecordsOf(corpusFile) \o before
                                     \o SubSeq(written, 1, k - 1))

\* the cycle of a slot stands at the head of a query after this step: it was
\* called by this step, or it waited out the delay after its previous query
BeginsQuery(slot) ==
    \/ slot \notin DOMAIN cycles
    \/ Ended(cycles[slot])
    \/ cycles[slot].pc = "delay"

\* C22: in each query the primary search is attempted first whenever its key
\* is present; the fallback (a browser search, then one browser per url) is
\* entered if and only if the key is absent or the primary search gave no
\* candidate; a browser is launched only inside the fallback, so none is
\* launched for a query whose primary search gave a candidate; and the
\* fallback takes at most 5 urls.
C22_PrimaryFirst ==
    [][\A slot \in DOMAIN cycles' :
              LET new == cycles'[slot]
              IN  /\ new.urls <= FallbackLimit
                  /\ BeginsQuery(slot) /\ new.pc \notin {"done", "thrown", "delay"}
                         => new.pc = IF tavilyKey THEN "tavily" ELSE "ddgLaunch"
                  /\ slot \in DOMAIN cycles =>
                         LET old == cycles[slot]
                         IN  /\ new.pc = "ddgLaunch" /\ old.pc # "ddgLaunch"
                                    => \/ ~tavilyKey /\ BeginsQuery(slot)
                                       \/ /\ tavilyKey
                                          /\ old.pc = "tavily"
                                          /\ new.candidates = old.candidates
                                          /\ new.sourceData = <<>>
                             /\ old.pc = "tavily" /\ new # old
                                    => /\ new.pc \in {"ddgLaunch", "generate",
                                                      "delay", "done", "thrown"}
                                       /\ ~old.candidates
                                              => (new.pc = "ddgLaunch"
                                                      <=> ~new.candidates)
                                       /\ openBrowsers' = openBrowsers
                             /\ new.pc = "ddgSearch" /\ old.pc # "ddgSearch"
                                    => old.pc = "ddgLaunch"
                             /\ new.pc = "scrapeLaunch" /\ old.pc # "scrapeLaunch"
                                    => old.pc \in {"ddgSearch", "scrapePage"}
                             /\ new.pc = "scrapePage" /\ old.pc # "scrapePage"
                                    => old.pc = "scrapeLaunch"
                             /\ openBrowsers' > openBrowsers /\ new # old
                                    => old.pc \in {"ddgLaunch", "scrapeLaunch"}
    ]_vars

\* the primary search, its key present, gave nothing, the results page held
\* more than 5 links, and the fallback is about to extract the first of 5
C22_Witness ==
    \E c \in Cycles :
        /\ tavilyKey
        /\ Surroundings.links > FallbackLimit
        /\ c.urls = FallbackLimit
        /\ c.pc = "scrapeLaunch"

\* a cycle is inside searchWebDuckDuckGo or scrapePageContent, between the
\* launch of the browser and the end of the call
InsideBrowserCall == {"ddgSearch", "scrapePage"}

\* C23: a browser is opened only by the launch of searchWebDuckDuckGo or
\* scrapePageContent and is closed by the step that ends that call, however
\* the try block ended (the one exception is a failure of browser.close()
\* itself); so the cycle that run() calls holds one browser while it is inside
\* such a call and none otherwise: none while the next url or candidate is
\* processed, none when it has ended.
C23_BrowserScoped ==
    [][\A slot \in DOMAIN cycles' :
           LET new == cycles'[slot]
           IN  /\ ~new.byTimer /\ new.error # "close"
                      => openBrowsers' =
                             IF new.pc \in InsideBrowserCall THEN 1 ELSE 0
               /\ slot \in DOMAIN cycles /\ cycles[slot] # new =>
                      LET old == cycles[slot]
                      IN  /\ old.pc \in InsideBrowserCall
                                 => /\ new.pc \notin InsideBrowserCall
                                    /\ new.error # "close"
                                           => openBrowsers' = openBrowsers - 1
                          /\ new.pc \in InsideBrowserCall
                                 => /\ old.pc \in {"ddgLaunch", "scrapeLaunch"}
                                    /\ openBrowsers' = openBrowsers + 1
                          /\ old.pc \notin InsideBrowserCall
                               /\ new.pc \notin InsideBrowserCall
                                 => openBrowsers' = openBrowsers
    ]_vars

\* a page has been extracted and kept, its browser is closed, and the next
\* url is about to be opened
C23_Witness ==
    \E c \in Cycles :
        /\ c.pc = "scrapeLaunch"
        /\ c.sourceData # <<>>
        /\ openBrowsers = 0

\* C24: a call of scrapePageContent never ends by an exception: no step of a
\* cycle that is inside the call (at its launch, or between launch and close)
\* leaves the cycle thrown by the launch or by the close.
C24_ScrapeNeverThrows ==
    [][\A slot \in DOMAIN cycles \cap DOMAIN cycles' :
           cycles[slot].pc \in {"scrapeLaunch", "scrapePage"}
               => ~ /\ cycles'[slot].pc = "thrown"
                    /\ cycles'[slot].error \in {"launch", "close"}
    ]_vars

----------------------------------------------------------------------------
(* Properties of generateGuideFromContent.                                 *)

\* the answer at hand is a success response whose body is JSON and whose
\* first message content parses as JSON
ParseableSuccess ==
    /\ response # NetworkError
    /\ response.status >= 200
    /\ response.status < 300
    /\ response.body.json
    /\ Len(response.body.choices) > 0
    /\ response.body.choices[1].parses

\* C25: generateGuideFromContent never throws; it returns null without
\* sending a request when the key is absent, and null when the call fails,
\* the status is no success, or the body or the message content is no JSON;
\* it returns a draft, with the fields of the model's answer, only when the
\* key is present and a success response carried parseable JSON.
C25_GeneratorReturnsNullOnFailure ==
    op = "generateGuideFromContent" =>
        /\ ret.value # Thrown
        /\ ~mistralKey => ret.value = Null /\ ret.requests = 0
        /\ mistralKey => ret.requests = 1
        /\ ~ParseableSuccess => ret.value = Null
        /\ ret.value # Null =>
               /\ mistralKey
               /\ ParseableSuccess
               /\ LET content == response.body.choices[1].value
                  IN  \A f \in DOMAIN content : ret.value[f] = content[f]

\* the key is present, the endpoint answers 401 with a body that would parse,
\* and the call has returned null after one request
C25_Witness ==
    /\ op = "generateGuideFromContent"
    /\ mistralKey
    /\ response = Http(401, Completion(ContentWifi))
    /\ ret.value = Null
    /\ ret.requests = 1

----------------------------------------------------------------------------
(* Properties of the pipeline in chosen surroundings.                      *)

\* C26: no two records of the pending store share an id.
C26_PendingIdsUnique ==
    LET stored == RecordsOf(pendingFile)
    IN  \A i, j \in DOMAIN stored :
            /\ i < j
            /\ "id" \in DOMAIN stored[i]
            /\ "id" \in DOMAIN stored[j]
            => stored[i].id # stored[j].id

\* an activation of cycle() that has neither completed nor thrown
Running(c) == ~Ended(c)

\* C27: two activations of cycle() are in progress at the same time only in
\* continuous mode, after the timer has been armed, and both were called by the
\* timer (the one run() calls has ended before the timer exists); such a state
\* is reachable, because the timer calls cycle() whatever the earlier
\* activations are doing.
C27_OverlapOnlyByTimer ==
    \A i, j \in DOMAIN cycles :
        i < j /\ Running(cycles[i]) /\ Running(cycles[j])
            => /\ isContinuous
               /\ timerArmed
               /\ cycles[i].byTimer
               /\ cycles[j].byTimer

\* two activations of the same process in progress, at different awaits
C27_Witness ==
    /\ runState = "scheduled"
    /\ \E i, j \in DOMAIN cycles :
           /\ i < j
           /\ Running(cycles[i])
           /\ Running(cycles[j])
           /\ cycles[i].pc = "generate"
           /\ cycles[j].pc = "tavily"

\* C28: with the batch pipeline no record of the pending store is a duplicate
\* (per isDuplicate) of a corpus guide or of an earlier record of the store.
C28_PendingFreeOfDuplicates ==
    pipeline = "batch" =>
        LET stored == RecordsOf(pendingFile)
        IN  \A k \in DOMAIN stored :
                HasTitle(stored[k]) =>
                    ~pipelineIsDuplicate(
                         stored[k],
                         RecordsOf(corpusFile) \o SubSeq(stored, 1, k - 1))

\* C29: once every activation of an overlapping run has ended, the pending
\* store holds every draft that any of them accepted.
C29_NoAcceptedDraftLost ==
    /\ isContinuous
    /\ Len(cycles) >= 2
    /\ \A c \in Cycles : Ended(c)
    => \A c \in Cycles :
           \A k \in DOMAIN c.allNewGuides :
               \E i \in DOMAIN RecordsOf(pendingFile) :
                   RecordsOf(pendingFile)[i] = c.allNewGuides[k]

----------------------------------------------------------------------------
(* The two duplicate checks compared.                                      *)

\* C30: GuideMatchingService.isDuplicate and the pipeline's isDuplicate return
\* the same verdict for every candidate title, candidate keyword list and
\* set of existing guides.
C30_SameDuplicateVerdict ==
    op = "isDuplicate" =>
        ret = pipelineIsDuplicate([title |-> query, keywords |-> keywords],
                                  guides)

=============================================================================
